---- MODULE Spec2Model ----
(***************************************************************************)
(* nimbix-admin/ssh.py: resolve the address of a running job by image      *)
(* name.  The script is a straight-line pipeline:                          *)
(*   load nimbix.yaml, read the image argument, GET /jobs, parse, scan the *)
(*   job listing for the image, assert a match, GET /connect, parse, print *)
(*   the address.                                                          *)
(* Two successive invocations of the script (Runs) are modelled over the   *)
(* same environment (argument vector, config file, server replies), so     *)
(* that properties relating two runs can be stated.  Each invocation is an *)
(* independent process; the second starts when the first has terminated.   *)
(***************************************************************************)
EXTENDS Integers, Sequences, FiniteSets, TLC

(* ---------------------------------------------------------------------- *)
(* Bounds and value domains                                                *)
(* ---------------------------------------------------------------------- *)

\* largest number of entries in a job listing returned by the server
MaxJobs == 2

Runs == {1, 2}

None == "<None>"

\* ssh.py:8
api_url == "https://api.jarvice.com/jarvice"

\* job numbers the server may use as keys of the listing
JobNumbers == {"41", "42", "43"}

\* image names carried by jobs; "ng0" and "NG0" differ only in letter case
Names == {"ng0", "NG0"}

\* command-line tokens (sys.argv[1:])
Tokens == {"--image", "", "ng0"}

Addresses == {"10.0.0.5", "10.0.0.6", ""}

StatusCodes == {200, 500}

\* contents of nimbix.yaml as yaml.load returns them; "missing" is no file
Configs == {[present |-> FALSE, username |-> "", apikey |-> ""],
            [present |-> TRUE, username |-> "u", apikey |-> "k"]}

(* JSON values held by the keys of a response object: either a job         *)
(* descriptor {"job_api_submission": {"nae": {"name": str}}} or a plain    *)
(* JSON string str (as in an error body).                                  *)
JobInfo(n) == [isJob |-> TRUE, str |-> n]
JsonString(s) == [isJob |-> FALSE, str |-> s]

JobValues == {JobInfo(n) : n \in Names} \cup {JsonString("msg")}

Listings ==
    UNION {[K -> JobValues] : K \in {S \in SUBSET JobNumbers : Cardinality(S) <= MaxJobs}}

(* What the server sends back: kind "error" is a transport failure,        *)
(* "invalid" a body that is not JSON, "list" a JSON array, "object" a JSON *)
(* object whose members are obj.                                           *)
Reply(k, o) == [kind |-> k, obj |-> o]
Unset == Reply("unset", <<>>)
NonObjectReplies == {Reply("error", <<>>), Reply("invalid", <<>>), Reply("list", <<>>)}
JobsReplies == NonObjectReplies \cup {Reply("object", l) : l \in Listings}
ConnectReplies ==
    NonObjectReplies \cup {Reply("object", <<>>)}
        \cup {Reply("object", [k \in {"address"} |-> JsonString(a)]) : a \in Addresses}

\* all orders in which the keys of a dict may be iterated
Perms(S) ==
    {s \in [1..Cardinality(S) -> S] : \A i, j \in 1..Cardinality(S) : i # j => s[i] # s[j]}

VARIABLES
    argv,              \* sys.argv[1:]
    config_file,       \* nimbix.yaml
    jobs_reply,        \* what the server answers to /jobs (fixed at first request)
    connect_reply,     \* what the server answers to /connect, per job number
    pc,                \* position of each run in the script
    image,
    username,
    apikey,
    res,
    pos,               \* position of the for loop in res.items()
    target_jobnumber,
    ip_address,
    stdout,
    exitcode,
    exc,               \* exception that ended the run, "none" otherwise
    requests,          \* GET requests issued, in order
    jobs_status,       \* HTTP status of the /jobs response received
    inspected          \* job numbers whose entry the loop has examined

vars == <<argv, config_file, jobs_reply, connect_reply, pc, image, username, apikey, res,
          pos, target_jobnumber, ip_address, stdout, exitcode, exc, requests, jobs_status,
          inspected>>

env == <<argv, config_file>>

NoRes == [type |-> "None", status |-> 0, content |-> Unset, order |-> <<>>]

Init ==
    /\ argv \in UNION {[1..n -> Tokens] : n \in 0..2}
    /\ config_file \in Configs
    /\ jobs_reply = Unset
    /\ connect_reply = [n \in JobNumbers |-> Unset]
    /\ pc = [r \in Runs |-> "load"]
    /\ image = [r \in Runs |-> None]
    /\ username = [r \in Runs |-> None]
    /\ apikey = [r \in Runs |-> None]
    /\ res = [r \in Runs |-> NoRes]
    /\ pos = [r \in Runs |-> 0]
    /\ target_jobnumber = [r \in Runs |-> None]
    /\ ip_address = [r \in Runs |-> None]
    /\ stdout = [r \in Runs |-> <<>>]
    /\ exitcode = [r \in Runs |-> -1]
    /\ exc = [r \in Runs |-> "none"]
    /\ requests = [r \in Runs |-> <<>>]
    /\ jobs_status = [r \in Runs |-> 0]
    /\ inspected = [r \in Runs |-> <<>>]

\* an invocation starts when the previous one has terminated
Started(r) == \A q \in Runs : q < r => pc[q] = "done"

\* an uncaught exception: traceback, interpreter exits with status 1
Raise(r, e) ==
    /\ pc' = [pc EXCEPT ![r] = "done"]
    /\ exc' = [exc EXCEPT ![r] = e]
    /\ exitcode' = [exitcode EXCEPT ![r] = 1]

\* sys.exit(code)
SysExit(r, code) ==
    /\ pc' = [pc EXCEPT ![r] = "done"]
    /\ exc' = [exc EXCEPT ![r] = "SystemExit"]
    /\ exitcode' = [exitcode EXCEPT ![r] = code]

Goto(r, l) ==
    /\ pc' = [pc EXCEPT ![r] = l]
    /\ UNCHANGED <<exc, exitcode>>

\* with open('nimbix.yaml') as f: config = yaml.load(f)
LoadConfig(r) ==
    /\ pc[r] = "load"
    /\ Started(r)
    /\ IF config_file.present THEN Goto(r, "args") ELSE Raise(r, "IOError")
    /\ UNCHANGED <<env, jobs_reply, connect_reply, image, username, apikey, res, pos,
                   target_jobnumber, ip_address, stdout, requests, jobs_status, inspected>>

(* argparse with the single option --image (default 'ng0'): the image on   *)
(* success, an error (exit status 2) on an unrecognized argument or an     *)
(* option without its value                                                *)
parse_args(args) ==
    IF args = <<>> THEN [ok |-> TRUE, image |-> "ng0"]
    ELSE IF Len(args) = 2 /\ args[1] = "--image" /\ args[2] # "--image"
         THEN [ok |-> TRUE, image |-> args[2]]
         ELSE [ok |-> FALSE, image |-> None]

\* if len(sys.argv) > 2: argparse ... else: image = sys.argv[1]
ParseArgs(r) ==
    /\ pc[r] = "args"
    /\ IF Len(argv) + 1 > 2
       THEN IF parse_args(argv).ok
            THEN /\ image' = [image EXCEPT ![r] = parse_args(argv).image]
                 /\ Goto(r, "creds")
            ELSE /\ SysExit(r, 2)
                 /\ UNCHANGED image
       ELSE IF Len(argv) >= 1
            THEN /\ image' = [image EXCEPT ![r] = argv[1]]
                 /\ Goto(r, "creds")
            ELSE /\ Raise(r, "IndexError")
                 /\ UNCHANGED image
    /\ UNCHANGED <<env, jobs_reply, connect_reply, username, apikey, res, pos,
                   target_jobnumber, ip_address, stdout, requests, jobs_status, inspected>>

\* username = config['username']; apikey = config['apikey']
ReadCredentials(r) ==
    /\ pc[r] = "creds"
    /\ username' = [username EXCEPT ![r] = config_file.username]
    /\ apikey' = [apikey EXCEPT ![r] = config_file.apikey]
    /\ Goto(r, "check")
    /\ UNCHANGED <<env, jobs_reply, connect_reply, image, res, pos,
                   target_jobnumber, ip_address, stdout, requests, jobs_status, inspected>>

\* variant: the emptiness test is left out
CheckImage_NoCheck(r) ==
    /\ pc[r] = "check"
    /\ Goto(r, "get_jobs")
    /\ UNCHANGED stdout
    /\ UNCHANGED <<env, jobs_reply, connect_reply, image, username, apikey, res, pos,
                   target_jobnumber, ip_address, requests, jobs_status, inspected>>

\* variant: sys.exit() without a status
CheckImage_ExitZero(r) ==
    /\ pc[r] = "check"
    /\ IF image[r] = "" \/ image[r] = None
       THEN /\ stdout' = [stdout EXCEPT ![r] = Append(@, "please provide image name")]
            /\ SysExit(r, 0)
       ELSE /\ Goto(r, "get_jobs")
            /\ UNCHANGED stdout
    /\ UNCHANGED <<env, jobs_reply, connect_reply, image, username, apikey, res, pos,
                   target_jobnumber, ip_address, requests, jobs_status, inspected>>

\* if image == '' or image is None: print(...); sys.exit(1)
CheckImage(r) ==
    /\ pc[r] = "check"
    /\ IF image[r] = "" \/ image[r] = None
       THEN /\ stdout' = [stdout EXCEPT ![r] = Append(@, "please provide image name")]
            /\ SysExit(r, 1)
       ELSE /\ Goto(r, "get_jobs")
            /\ UNCHANGED stdout
    /\ UNCHANGED <<env, jobs_reply, connect_reply, image, username, apikey, res, pos,
                   target_jobnumber, ip_address, requests, jobs_status, inspected>>

Request(r, path, number) ==
    [url |-> api_url, path |-> path, username |-> username[r], apikey |-> apikey[r],
     number |-> number]

Response(status, reply) == [type |-> "Response", status |-> status, content |-> reply, order |-> <<>>]

\* variant: a failed request is issued once more
GetJobs_Retry(r) ==
    /\ pc[r] = "get_jobs"
    /\ requests' = [requests EXCEPT ![r] = Append(@, Request(r, "/jobs", None))]
    /\ \E reply \in (IF jobs_reply = Unset THEN JobsReplies ELSE {jobs_reply}) :
         /\ jobs_reply' = reply
         /\ IF reply.kind = "error"
            THEN /\ IF Len(requests[r]) = 0 THEN Goto(r, "get_jobs")
                    ELSE Raise(r, "ConnectionError")
                 /\ UNCHANGED <<res, jobs_status>>
            ELSE \E status \in StatusCodes :
                    /\ res' = [res EXCEPT ![r] = Response(status, reply)]
                    /\ jobs_status' = [jobs_status EXCEPT ![r] = status]
                    /\ Goto(r, "parse_jobs")
    /\ UNCHANGED <<env, connect_reply, image, username, apikey, pos, target_jobnumber,
                   ip_address, stdout, inspected>>

\* variant: res.raise_for_status() after the request
GetJobs_RaiseForStatus(r) ==
    /\ pc[r] = "get_jobs"
    /\ requests' = [requests EXCEPT ![r] = Append(@, Request(r, "/jobs", None))]
    /\ \E reply \in (IF jobs_reply = Unset THEN JobsReplies ELSE {jobs_reply}) :
         /\ jobs_reply' = reply
         /\ IF reply.kind = "error"
            THEN /\ Raise(r, "ConnectionError")
                 /\ UNCHANGED <<res, jobs_status>>
            ELSE \E status \in StatusCodes :
                    /\ res' = [res EXCEPT ![r] = Response(status, reply)]
                    /\ jobs_status' = [jobs_status EXCEPT ![r] = status]
                    /\ IF status = 200 THEN Goto(r, "parse_jobs") ELSE Raise(r, "HTTPError")
    /\ UNCHANGED <<env, connect_reply, image, username, apikey, pos, target_jobnumber,
                   ip_address, stdout, inspected>>

\* res = requests.get('%s/jobs?username=%s&apikey=%s' % (api_url, username, apikey))
GetJobs(r) ==
    /\ pc[r] = "get_jobs"
    /\ requests' = [requests EXCEPT ![r] = Append(@, Request(r, "/jobs", None))]
    /\ \E reply \in (IF jobs_reply = Unset THEN JobsReplies ELSE {jobs_reply}) :
         /\ jobs_reply' = reply
         /\ IF reply.kind = "error"
            THEN /\ Raise(r, "ConnectionError")
                 /\ UNCHANGED <<res, jobs_status>>
            ELSE \E status \in StatusCodes :
                    /\ res' = [res EXCEPT ![r] = Response(status, reply)]
                    /\ jobs_status' = [jobs_status EXCEPT ![r] = status]
                    /\ Goto(r, "parse_jobs")
    /\ UNCHANGED <<env, connect_reply, image, username, apikey, pos, target_jobnumber,
                   ip_address, stdout, inspected>>

(* json.loads(res.content.decode('utf-8')): ValueError on a body that is   *)
(* not JSON; a JSON object becomes a dict, whose iteration order is the    *)
(* interpreter's (any order of the keys)                                   *)
json_loads(r) ==
    LET content == res[r].content IN
    IF content.kind = "invalid"
    THEN /\ Raise(r, "ValueError")
         /\ UNCHANGED res
    ELSE IF content.kind = "list"
    THEN /\ res' = [res EXCEPT ![r] = [type |-> "list", status |-> 0, content |-> content,
                                       order |-> <<>>]]
         /\ UNCHANGED <<exc, exitcode>>
    ELSE \E order \in Perms(DOMAIN content.obj) :
            /\ res' = [res EXCEPT ![r] = [type |-> "dict", status |-> 0, content |-> content,
                                          order |-> order]]
            /\ UNCHANGED <<exc, exitcode>>

\* res = json.loads(res.content.decode('utf-8'))
ParseJobs(r) ==
    /\ pc[r] = "parse_jobs"
    /\ json_loads(r)
    /\ IF res[r].content.kind = "invalid" THEN TRUE ELSE pc' = [pc EXCEPT ![r] = "for"]
    /\ UNCHANGED <<env, jobs_reply, connect_reply, image, username, apikey, pos,
                   target_jobnumber, ip_address, stdout, requests, jobs_status, inspected>>

\* target_jobnumber = None; for jobnumber, info in res.items():
BeginLoop(r) ==
    /\ pc[r] = "for"
    /\ target_jobnumber' = [target_jobnumber EXCEPT ![r] = None]
    /\ IF res[r].type = "dict"
       THEN /\ pos' = [pos EXCEPT ![r] = 1]
            /\ Goto(r, "loop")
       ELSE /\ Raise(r, "AttributeError")
            /\ UNCHANGED pos
    /\ UNCHANGED <<env, jobs_reply, connect_reply, image, username, apikey, res,
                   ip_address, stdout, requests, jobs_status, inspected>>

Lower(s) == IF s = "NG0" THEN "ng0" ELSE s

\* variant: the names are compared without regard to letter case
NameMatches_IgnoreCase(info, img) == Lower(info.str) = Lower(img)

\* info['job_api_submission']['nae']['name'] == image
NameMatches(info, img) == info.str = img

\* variant: the loop has no break
LoopIter_NoBreak(r) ==
    /\ pc[r] = "loop"
    /\ IF pos[r] > Len(res[r].order)
       THEN /\ Goto(r, "assert")
            /\ UNCHANGED <<pos, target_jobnumber, inspected>>
       ELSE LET jobnumber == res[r].order[pos[r]]
                info == res[r].content.obj[jobnumber]
            IN  /\ inspected' = [inspected EXCEPT ![r] = Append(@, jobnumber)]
                /\ IF ~info.isJob
                   THEN /\ Raise(r, "TypeError")
                        /\ UNCHANGED <<pos, target_jobnumber>>
                   ELSE /\ pos' = [pos EXCEPT ![r] = @ + 1]
                        /\ Goto(r, "loop")
                        /\ IF info.str = image[r]
                           THEN target_jobnumber' = [target_jobnumber EXCEPT ![r] = jobnumber]
                           ELSE UNCHANGED target_jobnumber
    /\ UNCHANGED <<env, jobs_reply, connect_reply, image, username, apikey, res,
                   ip_address, stdout, requests, jobs_status>>

(* one iteration of the loop: the next (jobnumber, info) of res.items();   *)
(* the loop ends when the items are exhausted or at the break              *)
LoopIter(r) ==
    /\ pc[r] = "loop"
    /\ IF pos[r] > Len(res[r].order)
       THEN /\ Goto(r, "assert")
            /\ UNCHANGED <<pos, target_jobnumber, inspected>>
       ELSE LET jobnumber == res[r].order[pos[r]]
                info == res[r].content.obj[jobnumber]
            IN  /\ inspected' = [inspected EXCEPT ![r] = Append(@, jobnumber)]
                /\ IF ~info.isJob
                   THEN /\ Raise(r, "TypeError")
                        /\ UNCHANGED <<pos, target_jobnumber>>
                   ELSE IF NameMatches(info, image[r])
                   THEN /\ target_jobnumber' = [target_jobnumber EXCEPT ![r] = jobnumber]
                        /\ Goto(r, "assert")
                        /\ UNCHANGED pos
                   ELSE /\ pos' = [pos EXCEPT ![r] = @ + 1]
                        /\ Goto(r, "loop")
                        /\ UNCHANGED target_jobnumber
    /\ UNCHANGED <<env, jobs_reply, connect_reply, image, username, apikey, res,
                   ip_address, stdout, requests, jobs_status>>

\* variant: no match ends the script quietly instead of failing the assertion
AssertFound_ExitQuietly(r) ==
    /\ pc[r] = "assert"
    /\ IF target_jobnumber[r] # None THEN Goto(r, "get_connect") ELSE SysExit(r, 0)
    /\ UNCHANGED <<env, jobs_reply, connect_reply, image, username, apikey, res, pos,
                   target_jobnumber, ip_address, stdout, requests, jobs_status, inspected>>

\* assert target_jobnumber is not None
AssertFound(r) ==
    /\ pc[r] = "assert"
    /\ IF target_jobnumber[r] # None THEN Goto(r, "get_connect") ELSE Raise(r, "AssertionError")
    /\ UNCHANGED <<env, jobs_reply, connect_reply, image, username, apikey, res, pos,
                   target_jobnumber, ip_address, stdout, requests, jobs_status, inspected>>

\* variant: the request names the first job of the listing, not the one found
GetConnect_FirstKey(r) ==
    LET number == res[r].order[1] IN
    /\ pc[r] = "get_connect"
    /\ requests' = [requests EXCEPT ![r] = Append(@, Request(r, "/connect", number))]
    /\ \E reply \in (IF connect_reply[number] = Unset THEN ConnectReplies
                     ELSE {connect_reply[number]}) :
         /\ connect_reply' = [connect_reply EXCEPT ![number] = reply]
         /\ IF reply.kind = "error"
            THEN /\ Raise(r, "ConnectionError")
                 /\ UNCHANGED res
            ELSE \E status \in StatusCodes :
                    /\ res' = [res EXCEPT ![r] = Response(status, reply)]
                    /\ Goto(r, "parse_connect")
    /\ UNCHANGED <<env, jobs_reply, image, username, apikey, pos, target_jobnumber,
                   ip_address, stdout, jobs_status, inspected>>

\* res = requests.get('%s/connect?username=%s&apikey=%s&number=%s' % (...))
GetConnect(r) ==
    LET number == target_jobnumber[r] IN
    /\ pc[r] = "get_connect"
    /\ requests' = [requests EXCEPT ![r] = Append(@, Request(r, "/connect", number))]
    /\ \E reply \in (IF connect_reply[number] = Unset THEN ConnectReplies
                     ELSE {connect_reply[number]}) :
         /\ connect_reply' = [connect_reply EXCEPT ![number] = reply]
         /\ IF reply.kind = "error"
            THEN /\ Raise(r, "ConnectionError")
                 /\ UNCHANGED res
            ELSE \E status \in StatusCodes :
                    /\ res' = [res EXCEPT ![r] = Response(status, reply)]
                    /\ Goto(r, "parse_connect")
    /\ UNCHANGED <<env, jobs_reply, image, username, apikey, pos, target_jobnumber,
                   ip_address, stdout, jobs_status, inspected>>

\* res = json.loads(res.content.decode('utf-8'))
ParseConnect(r) ==
    /\ pc[r] = "parse_connect"
    /\ json_loads(r)
    /\ IF res[r].content.kind = "invalid" THEN TRUE ELSE pc' = [pc EXCEPT ![r] = "address"]
    /\ UNCHANGED <<env, jobs_reply, connect_reply, image, username, apikey, pos,
                   target_jobnumber, ip_address, stdout, requests, jobs_status, inspected>>

\* ip_address = res['address']
ReadAddress(r) ==
    /\ pc[r] = "address"
    /\ IF res[r].type # "dict"
       THEN /\ Raise(r, "TypeError")
            /\ UNCHANGED ip_address
       ELSE IF "address" \notin DOMAIN res[r].content.obj
       THEN /\ Raise(r, "KeyError")
            /\ UNCHANGED ip_address
       ELSE /\ ip_address' = [ip_address EXCEPT ![r] = res[r].content.obj["address"].str]
            /\ Goto(r, "print")
    /\ UNCHANGED <<env, jobs_reply, connect_reply, image, username, apikey, res, pos,
                   target_jobnumber, stdout, requests, jobs_status, inspected>>

\* print(ip_address), then the script ends: exit status 0
PrintAddress(r) ==
    /\ pc[r] = "print"
    /\ stdout' = [stdout EXCEPT ![r] = Append(@, ip_address[r])]
    /\ pc' = [pc EXCEPT ![r] = "done"]
    /\ exitcode' = [exitcode EXCEPT ![r] = 0]
    /\ UNCHANGED <<env, jobs_reply, connect_reply, image, username, apikey, res, pos,
                   target_jobnumber, ip_address, exc, requests, jobs_status, inspected>>

Next ==
    \E r \in Runs :
        \/ LoadConfig(r)
        \/ ParseArgs(r)
        \/ ReadCredentials(r)
        \/ CheckImage(r)
        \/ GetJobs(r)
        \/ ParseJobs(r)
        \/ BeginLoop(r)
        \/ LoopIter(r)
        \/ AssertFound(r)
        \/ GetConnect(r)
        \/ ParseConnect(r)
        \/ ReadAddress(r)
        \/ PrintAddress(r)

Spec == Init /\ [][Next]_vars

(* ---------------------------------------------------------------------- *)
(* Vocabulary of the properties                                            *)
(* ---------------------------------------------------------------------- *)

Done(r) == pc[r] = "done"

\* the server answered /jobs with a JSON object: the job listing
IsListing == jobs_reply.kind = "object"
Listing == jobs_reply.obj

\* every entry of the listing is a job descriptor with an image name
WellFormed(l) == \A k \in DOMAIN l : l[k].isJob

\* the job numbers of the entries whose image name is exactly img
Matches(l, img) == {k \in DOMAIN l : l[k].isJob /\ l[k].str = img}

\* the run has left the search loop without an exception in it
AfterSearch(r) ==
    \/ pc[r] \in {"assert", "get_connect", "parse_connect", "address", "print"}
    \/ Done(r) /\ exc[r] = "AssertionError"
    \/ Len(requests[r]) = 2

\* the run was ended by an exception nobody caught (traceback)
Crashed(r) == Done(r) /\ exc[r] \notin {"none", "SystemExit"}

IssuedConnect(r) == \E i \in 1..Len(requests[r]) : requests[r][i].path = "/connect"

ArgumentMessage == "please provide image name"

\* an address was written to standard output
PrintedAddress(r) == stdout[r] # <<>> /\ stdout[r] # <<ArgumentMessage>>

\* the /connect reply for the job the run found carries an address field
HasAddress(n) ==
    /\ n # None
    /\ connect_reply[n].kind = "object"
    /\ "address" \in DOMAIN connect_reply[n].obj

(* C1: when the image name equals the name of no entry of the (well-formed) *)
(* job listing, the search yields no job number, no /connect request is     *)
(* issued, and the run ends at the failed assertion of line 44 (the         *)
(* NotFoundError outcome) with a non-zero exit status and nothing printed.  *)
C1_NotFound ==
    \A r \in Runs :
        (/\ IsListing
         /\ WellFormed(Listing)
         /\ image[r] \notin {None, ""}
         /\ Matches(Listing, image[r]) = {})
        => /\ target_jobnumber[r] = None
           /\ ~IssuedConnect(r)
           /\ pc[r] \notin {"get_connect", "parse_connect", "address", "print"}
           /\ (Done(r) /\ requests[r] # <<>>)
                => (exc[r] = "AssertionError" /\ exitcode[r] = 1 /\ stdout[r] = <<>>)

C1_Witness ==
    \E r \in Runs :
        /\ Done(r) /\ exc[r] = "AssertionError"
        /\ IsListing /\ WellFormed(Listing) /\ Listing # <<>>
        /\ Len(inspected[r]) = Cardinality(DOMAIN Listing)

(* C2: when exactly one entry of a well-formed listing has the image name,  *)
(* the search ends with that entry's job number, wherever the entry stands  *)
(* in the iteration order.                                                  *)
C2_UniqueMatch ==
    \A r \in Runs :
        (/\ IsListing
         /\ WellFormed(Listing)
         /\ Cardinality(Matches(Listing, image[r])) = 1
         /\ AfterSearch(r))
        => Matches(Listing, image[r]) = {target_jobnumber[r]}

C2_Witness ==
    \E r \in Runs :
        /\ IsListing /\ WellFormed(Listing) /\ AfterSearch(r)
        /\ Cardinality(Matches(Listing, image[r])) = 1
        /\ Cardinality(DOMAIN Listing) = 2
        /\ Len(inspected[r]) = 2
        /\ target_jobnumber[r] = inspected[r][2]

(* C3: with an empty (or None) image name no request is ever issued, and    *)
(* the run that reaches the test of line 26 ends by sys.exit(1) after the   *)
(* message 'please provide image name' (the ArgumentError outcome).         *)
C3_EmptyImage ==
    \A r \in Runs :
        image[r] \in {"", None}
        => /\ requests[r] = <<>>
           /\ pc[r] \in {"load", "args", "creds", "check", "done"}
           /\ (Done(r) /\ image[r] = "")
                => /\ exc[r] = "SystemExit"
                   /\ exitcode[r] = 1
                   /\ stdout[r] = <<ArgumentMessage>>

C3_Witness ==
    \E r \in Runs : Done(r) /\ image[r] = "" /\ exitcode[r] = 1 /\ requests[r] = <<>>

(* C4 (as claimed): when the parsed /connect response has no address field  *)
(* the run fails without crashing and prints nothing.                       *)
C4_MissingFieldNoCrash ==
    \A r \in Runs :
        (/\ Done(r)
         /\ Len(requests[r]) = 2
         /\ connect_reply[target_jobnumber[r]].kind = "object"
         /\ "address" \notin DOMAIN connect_reply[target_jobnumber[r]].obj)
        => /\ ~Crashed(r)
           /\ exitcode[r] # 0
           /\ stdout[r] = <<>>

(* C5 (as claimed): two runs with the same arguments, credentials, job      *)
(* listing and connection-info replies end in the same outcome and print    *)
(* the same address, also when several entries have the image name.         *)
C5_Deterministic ==
    (Done(1) /\ Done(2) /\ IsListing /\ WellFormed(Listing))
    => /\ exitcode[1] = exitcode[2]
       /\ exc[1] = exc[2]
       /\ stdout[1] = stdout[2]

C7_PrintedAddress ==
    \A r \in Runs :
        (Done(r) /\ exitcode[r] = 0)
        => /\ Len(requests[r]) = 2
           /\ requests[r][2] = [url |-> api_url, path |-> "/connect",
                                username |-> config_file.username,
                                apikey |-> config_file.apikey,
                                number |-> target_jobnumber[r]]
           /\ IsListing
           /\ target_jobnumber[r] \in Matches(Listing, image[r])
           /\ HasAddress(requests[r][2].number)
           /\ stdout[r] = <<connect_reply[requests[r][2].number].obj["address"].str>>

C7_Witness ==
    \E r \in Runs :
        /\ Done(r) /\ exitcode[r] = 0
        /\ image[r] = "ng0"
        /\ stdout[r] = <<"10.0.0.5">>
        /\ Cardinality(DOMAIN Listing) = 2
        /\ Len(inspected[r]) = 2

\* position of the first entry in iteration order whose name is exactly img
FirstMatch(order, l, img) ==
    CHOOSE i \in 1..Len(order) :
        /\ l[order[i]].str = img
        /\ \A j \in 1..(i - 1) : l[order[j]].str # img

(* C8: when the search ends with entries of the image name in the listing,  *)
(* its result is the first of them in the iteration order of the dict and   *)
(* the entries after it have not been examined; an entry whose name differs *)
(* from the image name (be it only in letter case) is passed over.          *)
C8_FirstMatch ==
    \A r \in Runs :
        (/\ pc[r] \in {"assert", "get_connect"}
         /\ WellFormed(Listing)
         /\ Matches(Listing, image[r]) # {})
        => LET order == res[r].order
               i == FirstMatch(order, Listing, image[r])
           IN  /\ target_jobnumber[r] = order[i]
               /\ inspected[r] = SubSeq(order, 1, i)
               /\ Listing[target_jobnumber[r]].str = image[r]

C8_Witness ==
    \E r \in Runs :
        /\ pc[r] = "get_connect"
        /\ Cardinality(Matches(Listing, image[r])) = 2
        /\ Len(inspected[r]) = 1

\* everything a run owns
RunState(r) ==
    <<pc[r], image[r], username[r], apikey[r], res[r], pos[r], target_jobnumber[r],
      ip_address[r], stdout[r], exitcode[r], exc[r], requests[r], jobs_status[r],
      inspected[r]>>

C9_Order ==
    \A r \in Runs :
        /\ Len(requests[r]) <= 2
        /\ Len(requests[r]) >= 1 => requests[r][1].path = "/jobs"
        /\ Len(requests[r]) = 2
             => /\ requests[r][2].path = "/connect"
                /\ IsListing
                /\ target_jobnumber[r] \in Matches(Listing, image[r])
        /\ PrintedAddress(r)
             => /\ Len(requests[r]) = 2
                /\ HasAddress(target_jobnumber[r])
                /\ Done(r)
        /\ exc[r] # "none" => Done(r)

(* C9: a run issues at most one GET /jobs and then at most one GET          *)
(* /connect, the latter only once the listing is parsed and a matching job  *)
(* found; the address is printed only after the /connect reply; a run that  *)
(* has failed has ended, and a run that has ended does nothing more.        *)
C9_Sequential ==
    /\ []C9_Order
    /\ [][\A r \in Runs : Done(r) => RunState(r)' = RunState(r)]_vars

C9_Witness ==
    \E r, q \in Runs :
        /\ Done(r) /\ exitcode[r] = 0 /\ Len(requests[r]) = 2
        /\ Done(q) /\ exc[q] = "ValueError" /\ Len(requests[q]) = 2

\* one sequence is an initial part of the other
Compatible(s, t) ==
    \A i \in 1..Len(s) : i <= Len(t) => s[i] = t[i]

(* C10: the HTTP status of the /jobs response is not looked at: two runs    *)
(* that receive the same body and iterate the parsed listing alike end in   *)
(* the same outcome whatever status each response carried.                  *)
C10_StatusIgnored ==
    (/\ Done(1) /\ Done(2)
     /\ Compatible(inspected[1], inspected[2]))
    => /\ exitcode[1] = exitcode[2]
       /\ exc[1] = exc[2]
       /\ stdout[1] = stdout[2]
       /\ target_jobnumber[1] = target_jobnumber[2]
       /\ Len(requests[1]) = Len(requests[2])

C10_Witness ==
    /\ Done(1) /\ Done(2)
    /\ jobs_status[1] = 200 /\ jobs_status[2] = 500
    /\ exitcode[1] = 0 /\ exitcode[2] = 0
====
